---- MODULE Spec2Model ----
(***************************************************************************)
(* The CreateInvoice form of bill-ease (src/unnamed/part_000): the invoice *)
(* draft, the line-item editor, full-form validation and the submission   *)
(* request.  React state hooks are the variables; every event handler is   *)
(* one action, taken only while the element that triggers it is rendered.  *)
(*                                                                         *)
(* Representation                                                          *)
(*  - a JavaScript string is a sequence of one-character strings, so that  *)
(*    trim, toUpperCase, parseFloat and the string-to-number coercion of   *)
(*    the relational operators are computed character by character;        *)
(*  - a JavaScript number is an exact rational [nan, n, d] (d > 0) or NaN; *)
(*    rounding of binary floating point is outside the model;              *)
(*  - a date string "YYYY-MM-DD" is the triple <<Y, M, D>> of its three    *)
(*    fixed-width fields, the empty string is <<>>;                        *)
(*  - array index i of JavaScript is position i + 1 of a sequence;         *)
(*  - errors is a function on all field names, "" meaning no message (an   *)
(*    absent key and a key holding "" are both falsy where errors is read).*)
(***************************************************************************)
EXTENDS Integers, Sequences, FiniteSets, TLC

VARIABLES clients, clientsReq, invoice, newItem, editIndex, isRedirecting,
          message, errors, isConfirmed, inflight, nav, crashed, last

vars == <<clients, clientsReq, invoice, newItem, editIndex, isRedirecting,
          message, errors, isConfirmed, inflight, nav, crashed, last>>

(* ------------------------------ bounds -------------------------------- *)

\* Longest item list the model appends to.
MaxItems == 2

(* ----------------------------- strings -------------------------------- *)

LowerCase == <<"a","b","c","d","e","f","g","h","i","j","k","l","m",
               "n","o","p","q","r","s","t","u","v","w","x","y","z">>
UpperCase == <<"A","B","C","D","E","F","G","H","I","J","K","L","M",
               "N","O","P","Q","R","S","T","U","V","W","X","Y","Z">>

IsSpace(c) == c \in {" ", "\t", "\n"}

RECURSIVE TrimStart(_)
TrimStart(s) ==
    IF s = <<>> THEN <<>>
    ELSE IF IsSpace(Head(s)) THEN TrimStart(Tail(s)) ELSE s

RECURSIVE TrimEnd(_)
TrimEnd(s) ==
    IF s = <<>> THEN <<>>
    ELSE IF IsSpace(s[Len(s)]) THEN TrimEnd(SubSeq(s, 1, Len(s) - 1)) ELSE s

\* String.prototype.trim
Trim(s) == TrimEnd(TrimStart(s))

UpperChar(c) ==
    IF \E k \in 1..Len(LowerCase) : LowerCase[k] = c
    THEN UpperCase[CHOOSE k \in 1..Len(LowerCase) : LowerCase[k] = c]
    ELSE c

\* String.prototype.toUpperCase
ToUpperCase(s) == [k \in 1..Len(s) |-> UpperChar(s[k])]

(* ----------------------------- numbers -------------------------------- *)

NaN == [nan |-> TRUE, n |-> 0, d |-> 1]
Rat(a, b) == [nan |-> FALSE, n |-> a, d |-> b]
Num(a) == Rat(a, 1)

NumMul(x, y) == IF x.nan \/ y.nan THEN NaN ELSE Rat(x.n * y.n, x.d * y.d)
NumSub(x, y) == IF x.nan \/ y.nan THEN NaN ELSE Rat(x.n * y.d - y.n * x.d, x.d * y.d)
\* x / y for a positive divisor (the only division of the form is by 100)
NumDiv(x, y) == IF x.nan \/ y.nan THEN NaN ELSE Rat(x.n * y.d, x.d * y.n)
\* the relational operators: false as soon as one side is NaN
NumLt(x, y) == ~x.nan /\ ~y.nan /\ x.n * y.d < y.n * x.d
NumEq(x, y) == ~x.nan /\ ~y.nan /\ x.n * y.d = y.n * x.d

Digits == <<"0","1","2","3","4","5","6","7","8","9">>
IsDigit(c) == \E k \in 1..Len(Digits) : Digits[k] = c
DigitVal(c) == (CHOOSE k \in 1..Len(Digits) : Digits[k] = c) - 1

\* number of digits at the front of s
RECURSIVE DigitRun(_)
DigitRun(s) ==
    IF s = <<>> \/ ~IsDigit(Head(s)) THEN 0 ELSE 1 + DigitRun(Tail(s))

\* value of a string of digits
RECURSIVE DigitsValue(_)
DigitsValue(s) ==
    IF s = <<>> THEN 0
    ELSE 10 * DigitsValue(SubSeq(s, 1, Len(s) - 1)) + DigitVal(s[Len(s)])

RECURSIVE Pow10(_)
Pow10(k) == IF k = 0 THEN 1 ELSE 10 * Pow10(k - 1)

Drop(s, k) == SubSeq(s, k + 1, Len(s))

\* The longest decimal literal [sign] digits [. digits] at the front of s:
\* [len |-> characters consumed (0 when there is none), val |-> its value].
DecimalPrefix(s) ==
    LET hasSign == s # <<>> /\ Head(s) \in {"-", "+"}
        sgn     == IF s # <<>> /\ Head(s) = "-" THEN -1 ELSE 1
        body    == IF hasSign THEN Tail(s) ELSE s
        ni      == DigitRun(body)
        rest    == Drop(body, ni)
        hasDot  == rest # <<>> /\ Head(rest) = "."
        nf      == IF hasDot THEN DigitRun(Tail(rest)) ELSE 0
        ip      == DigitsValue(SubSeq(body, 1, ni))
        fp      == IF nf = 0 THEN 0 ELSE DigitsValue(SubSeq(Tail(rest), 1, nf))
        used    == (IF hasSign THEN 1 ELSE 0) + ni
                   + (IF hasDot /\ (ni > 0 \/ nf > 0) THEN 1 + nf ELSE 0)
    IN  IF ni = 0 /\ nf = 0
        THEN [len |-> 0, val |-> NaN]
        ELSE [len |-> used, val |-> Rat(sgn * (ip * Pow10(nf) + fp), Pow10(nf))]

\* parseFloat: leading white space skipped, the longest numeric prefix
\* parsed, NaN when there is none (exponents and Infinity are not modelled).
ParseFloat(s) == DecimalPrefix(TrimStart(s)).val

\* ToNumber of a string, as applied by < and > to a string operand: white
\* space trimmed, "" is 0, otherwise the whole text must be one literal.
ToNumber(s) ==
    LET t == Trim(s)
        p == DecimalPrefix(t)
    IN  IF t = <<>> THEN Num(0)
        ELSE IF p.len = Len(t) THEN p.val ELSE NaN

(* ------------------------------ dates --------------------------------- *)

\* new Date("YYYY-MM-DD"), up to an order-preserving change of scale: only
\* comparisons of two such values are made.
DateValue(s) == (s[1] * 12 + s[2]) * 31 + s[3]

\* s < t on two strings: the first differing code unit decides, a proper
\* prefix is smaller.  On fixed-width date fields the code units compare as
\* the fields do.
RECURSIVE StrLess(_, _)
StrLess(s, t) ==
    IF t = <<>> THEN FALSE
    ELSE IF s = <<>> THEN TRUE
    ELSE IF Head(s) # Head(t) THEN Head(s) < Head(t)
    ELSE StrLess(Tail(s), Tail(t))

(* ------------------------------ state --------------------------------- *)

null == <<>>

\* the fields of the invoice draft a form control writes
HeaderFields == {"client_id", "issue_date", "due_date", "currency",
                 "tax_amount", "payment_method"}
\* the fields of the line-item inputs
ItemFields == {"description", "quantity", "rate", "discount", "unit"}
\* every name errors is indexed by
ErrorKeys == HeaderFields \cup ItemFields \cup {"items"}

NoErrors == [k \in ErrorKeys |-> ""]

\* the value of useState for newItem, also written back after a save
BlankItem == [description |-> <<>>, quantity |-> <<>>, rate |-> <<>>,
              discount |-> <<>>, unit |-> <<>>]

\* an array position never assigned (skipped by map and filter)
Hole == [hole |-> TRUE]
\* the value a spread reads from such a position
Undefined == [undefined |-> TRUE]

items == invoice.items

Init ==
    /\ clients = <<>>
    /\ clientsReq = "pending"
    /\ invoice = [client_id |-> <<>>, issue_date |-> <<>>, due_date |-> <<>>,
                  currency |-> <<"U","S","D">>, tax_amount |-> <<"0">>,
                  status |-> "Unpaid", payment_method |-> <<>>, items |-> <<>>]
    /\ newItem = BlankItem
    /\ editIndex = null
    /\ isRedirecting = FALSE
    /\ message = "null"
    /\ errors = NoErrors
    /\ isConfirmed = FALSE
    /\ inflight = <<>>
    /\ nav = "none"
    /\ crashed = FALSE
    /\ last = [op |-> "mount", outcome |-> "", at |-> null, was |-> FALSE]

\* The form controls are rendered (the branch of isRedirecting ? ... : ...
\* that holds them), the component is mounted and its last render returned.
FormVisible == ~isRedirecting /\ ~crashed /\ nav # "done"

\* last: the handler that ran last, how it ended and the index it acted on
\* (a record of the run, read by no handler).  For saveItem, editItem and
\* deleteItem it also keeps the confirmation flag the handler found.
Did(op, outcome, at) ==
    last' = [op |-> op, outcome |-> outcome, at |-> at, was |-> FALSE]
DidItem(op, outcome, at) ==
    last' = [op |-> op, outcome |-> outcome, at |-> at, was |-> isConfirmed]

(* --------------------------- client lookup ---------------------------- *)

fetchClientsOk(list) ==
    /\ clientsReq = "pending"
    /\ nav # "done"
    /\ clientsReq' = "done"
    /\ clients' = list
    /\ Did("fetchClients", "ok", null)
    /\ UNCHANGED <<invoice, newItem, editIndex, isRedirecting, message, errors,
                   isConfirmed, inflight, nav, crashed>>

\* fetch or response.json() rejects: nothing catches it, no state is set
fetchClientsFail ==
    /\ clientsReq = "pending"
    /\ nav # "done"
    /\ clientsReq' = "failed"
    /\ Did("fetchClients", "failed", null)
    /\ UNCHANGED <<clients, invoice, newItem, editIndex, isRedirecting, message,
                   errors, isConfirmed, inflight, nav, crashed>>

(* --------------------------- line-item editor ------------------------- *)

handleItemChange(name, value) ==
    /\ FormVisible
    /\ newItem' = [newItem EXCEPT ![name] = value]
    /\ errors' = [errors EXCEPT ![name] = ""]
    /\ Did("handleItemChange", "", null)
    /\ UNCHANGED <<clients, clientsReq, invoice, editIndex, isRedirecting,
                   message, isConfirmed, inflight, nav, crashed>>

MsgDescription == "Description is required."
MsgQuantity == "Quantity is required."
MsgRate == "Rate is required."
MsgDiscount == "Discount must be between 0 and 100."
MsgUnit == "Unit is required."

\* ItemErrorKeys with the upper limit of the discount left unchecked
ItemErrorKeys_NoUpperLimit(it) ==
    {k \in ItemFields :
        \/ k = "description" /\ Trim(it.description) = <<>>
        \/ k = "quantity" /\ Trim(it.quantity) = <<>>
        \/ k = "rate" /\ Trim(it.rate) = <<>>
        \/ k = "discount" /\ NumLt(ToNumber(it.discount), Num(0))
        \/ k = "unit" /\ Trim(it.unit) = <<>>}

\* the newErrors object of saveItem, as the set of keys it holds
ItemErrorKeys(it) ==
    {k \in ItemFields :
        \/ k = "description" /\ Trim(it.description) = <<>>
        \/ k = "quantity" /\ Trim(it.quantity) = <<>>
        \/ k = "rate" /\ Trim(it.rate) = <<>>
        \/ k = "discount" /\ (\/ NumLt(ToNumber(it.discount), Num(0))
                              \/ NumLt(Num(100), ToNumber(it.discount)))
        \/ k = "unit" /\ Trim(it.unit) = <<>>}

ItemErrorMsg(k) ==
    CASE k = "description" -> MsgDescription
      [] k = "quantity" -> MsgQuantity
      [] k = "rate" -> MsgRate
      [] k = "discount" -> MsgDiscount
      [] k = "unit" -> MsgUnit

GrossAmount(it) == NumMul(ParseFloat(it.quantity), ParseFloat(it.rate))
NetAmount(it) ==
    NumMul(GrossAmount(it),
           NumSub(Num(1), NumDiv(ParseFloat(it.discount), Num(100))))

\* StoredItem with the spread last: an edited item keeps the amounts it
\* was loaded with
StoredItem_StaleAmounts(it) ==
    [description |-> it.description, quantity |-> it.quantity,
     rate |-> it.rate, discount |-> it.discount,
     unit |-> ToUpperCase(it.unit),
     grossAmount |-> IF "grossAmount" \in DOMAIN it
                     THEN it.grossAmount ELSE GrossAmount(it),
     netAmount |-> IF "netAmount" \in DOMAIN it
                   THEN it.netAmount ELSE NetAmount(it)]

\* { ...newItem, grossAmount, netAmount, unit: unit.toUpperCase() }
StoredItem(it) ==
    [description |-> it.description, quantity |-> it.quantity,
     rate |-> it.rate, discount |-> it.discount,
     unit |-> ToUpperCase(it.unit),
     grossAmount |-> GrossAmount(it), netAmount |-> NetAmount(it)]

\* [...arr]: the iterator reads undefined where the array has a hole
Spread(arr) == [k \in 1..Len(arr) |-> IF arr[k] = Hole THEN Undefined ELSE arr[k]]

\* arr[i] = x on a copy (i a 0-based index): an index past the end
\* lengthens the array and leaves holes between
AssignAt(arr, i, x) ==
    [k \in 1..(IF i + 1 > Len(arr) THEN i + 1 ELSE Len(arr)) |->
        IF k = i + 1 THEN x ELSE IF k <= Len(arr) THEN arr[k] ELSE Hole]

\* the rows' callback reads item.quantity: it throws on undefined (holes
\* are skipped by map)
RenderThrows(arr) == \E k \in 1..Len(arr) : arr[k] = Undefined

saveItem ==
    /\ FormVisible
    /\ IF ItemErrorKeys(newItem) # {}
       THEN /\ errors' = [k \in ErrorKeys |->
                            IF k \in ItemErrorKeys(newItem)
                            THEN ItemErrorMsg(k) ELSE ""]
            /\ DidItem("saveItem", "rejected", editIndex)
            /\ UNCHANGED <<invoice, newItem, editIndex, isConfirmed, crashed>>
       ELSE /\ editIndex = null => Len(items) < MaxItems
            /\ LET updatedItems ==
                     IF editIndex # null
                     THEN AssignAt(Spread(items), editIndex[1], StoredItem(newItem))
                     ELSE Append(Spread(items), StoredItem(newItem))
               IN  /\ invoice' = [invoice EXCEPT !.items = updatedItems]
                   /\ crashed' = RenderThrows(updatedItems)
            /\ editIndex' = null
            /\ newItem' = BlankItem
            /\ isConfirmed' = FALSE
            /\ DidItem("saveItem", IF editIndex # null THEN "replaced" ELSE "appended",
                   editIndex)
            /\ UNCHANGED errors
    /\ UNCHANGED <<clients, clientsReq, isRedirecting, message, inflight, nav>>

\* the Edit button of row index (rows exist for assigned positions only)
editItem(index) ==
    /\ FormVisible
    /\ index \in 0..(Len(items) - 1)
    /\ items[index + 1] # Hole
    /\ newItem' = items[index + 1]
    /\ editIndex' = <<index>>
    /\ isConfirmed' = FALSE
    /\ DidItem("editItem", "", <<index>>)
    /\ UNCHANGED <<clients, clientsReq, invoice, isRedirecting, message, errors,
                   inflight, nav, crashed>>

\* arr.filter((_, i) => i !== index): holes are not visited, so not kept
RECURSIVE FilterOut(_, _, _)
FilterOut(arr, index, i) ==
    IF arr = <<>> THEN <<>>
    ELSE IF Head(arr) # Hole /\ i # index
         THEN <<Head(arr)>> \o FilterOut(Tail(arr), index, i + 1)
         ELSE FilterOut(Tail(arr), index, i + 1)

\* deleteItem without setIsConfirmed(false)
deleteItem_KeepsConfirmation(index) ==
    /\ FormVisible
    /\ index \in 0..(Len(items) - 1)
    /\ items[index + 1] # Hole
    /\ invoice' = [invoice EXCEPT !.items = FilterOut(items, index, 0)]
    /\ DidItem("deleteItem", "", <<index>>)
    /\ UNCHANGED <<clients, clientsReq, newItem, editIndex, isRedirecting,
                   message, errors, inflight, nav, crashed, isConfirmed>>

deleteItem(index) ==
    /\ FormVisible
    /\ index \in 0..(Len(items) - 1)
    /\ items[index + 1] # Hole
    /\ invoice' = [invoice EXCEPT !.items = FilterOut(items, index, 0)]
    /\ isConfirmed' = FALSE
    /\ DidItem("deleteItem", "", <<index>>)
    /\ UNCHANGED <<clients, clientsReq, newItem, editIndex, isRedirecting,
                   message, errors, inflight, nav, crashed>>

\* the confirmation checkbox
setIsConfirmed(checked) ==
    /\ FormVisible
    /\ isConfirmed' = checked
    /\ Did("setIsConfirmed", "", null)
    /\ UNCHANGED <<clients, clientsReq, invoice, newItem, editIndex,
                   isRedirecting, message, errors, inflight, nav, crashed>>

(* ---------------------------- invoice header -------------------------- *)

MsgDueLater == "Due date must be later than the issue date."
MsgClient == "Client selection is required."
MsgIssue == "Issue date is required."
MsgDue == "Due date is required."
MsgPayment == "Payment method is required."
MsgItems == "At least one item is required."

\* a string or id is truthy when it is not empty
Present(v) == v # <<>>

\* the incremental due-date check of handleChange on the updated draft
DueDateCheck(inv, errs) ==
    IF Present(inv.issue_date) /\ Present(inv.due_date)
    THEN IF DateValue(inv.due_date) <= DateValue(inv.issue_date)
         THEN [errs EXCEPT !["due_date"] = MsgDueLater]
         ELSE [errs EXCEPT !["due_date"] = ""]
    ELSE errs

handleChange(name, value) ==
    /\ FormVisible
    /\ name = "client_id" => \E k \in 1..Len(clients) : clients[k].id = value
    /\ LET updatedInvoice == [invoice EXCEPT ![name] = value]
       IN  /\ invoice' = updatedInvoice
           /\ errors' = DueDateCheck(updatedInvoice, [errors EXCEPT ![name] = ""])
    /\ Did("handleChange", "", null)
    /\ UNCHANGED <<clients, clientsReq, newItem, editIndex, isRedirecting,
                   message, isConfirmed, inflight, nav, crashed>>

\* the due-date rule of validateForm: a comparison of the two strings
DueBeforeIssue(inv) ==
    /\ Present(inv.due_date)
    /\ Present(inv.issue_date)
    /\ StrLess(inv.due_date, inv.issue_date)

\* FormErrors without the rule on the item list
FormErrors_NoItemsRule(inv) ==
    [k \in ErrorKeys |->
        CASE k = "client_id" /\ ~Present(inv.client_id) -> MsgClient
          [] k = "issue_date" /\ ~Present(inv.issue_date) -> MsgIssue
          [] k = "due_date" /\ DueBeforeIssue(inv) -> MsgDueLater
          [] k = "due_date" /\ ~Present(inv.due_date) -> MsgDue
          [] k = "payment_method" /\ ~Present(inv.payment_method) -> MsgPayment
          [] OTHER -> ""]

\* the newErrors object of validateForm (later assignments overwrite)
FormErrors(inv) ==
    [k \in ErrorKeys |->
        CASE k = "client_id" /\ ~Present(inv.client_id) -> MsgClient
          [] k = "issue_date" /\ ~Present(inv.issue_date) -> MsgIssue
          [] k = "due_date" /\ DueBeforeIssue(inv) -> MsgDueLater
          [] k = "due_date" /\ ~Present(inv.due_date) -> MsgDue
          [] k = "payment_method" /\ ~Present(inv.payment_method) -> MsgPayment
          [] k = "items" /\ Len(inv.items) = 0 -> MsgItems
          [] OTHER -> ""]

\* Object.keys(newErrors).length === 0
validateForm(inv) == FormErrors(inv) = NoErrors

\* the body of the request: items without the derived amounts (map keeps
\* a hole a hole); invoice holds no tax_rate, so Number(undefined)
InvoiceData(inv) ==
    [client_id |-> inv.client_id, issue_date |-> inv.issue_date,
     due_date |-> inv.due_date, currency |-> inv.currency,
     tax_rate |-> NaN, status |-> inv.status,
     payment_method |-> inv.payment_method,
     items |-> [k \in 1..Len(inv.items) |->
                  IF inv.items[k] = Hole THEN Hole
                  ELSE [description |-> inv.items[k].description,
                        quantity |-> inv.items[k].quantity,
                        unit |-> inv.items[k].unit,
                        rate |-> inv.items[k].rate,
                        discount |-> inv.items[k].discount]]]

\* handleSubmit without setIsRedirecting(true)
handleSubmit_StaysEditable ==
    /\ FormVisible
    /\ errors' = FormErrors(invoice)
    /\ IF ~validateForm(invoice)
       THEN /\ Did("handleSubmit", "invalid", null)
            /\ UNCHANGED <<isRedirecting, inflight>>
       ELSE /\ inflight' = Append(inflight, InvoiceData(invoice))
            /\ Did("handleSubmit", "sent", null)
            /\ UNCHANGED isRedirecting
    /\ UNCHANGED <<clients, clientsReq, invoice, newItem, editIndex, message,
                   isConfirmed, nav, crashed>>

\* handleSubmit up to its await: validation, then the request is sent
handleSubmit ==
    /\ FormVisible
    /\ errors' = FormErrors(invoice)
    /\ IF ~validateForm(invoice)
       THEN /\ Did("handleSubmit", "invalid", null)
            /\ UNCHANGED <<isRedirecting, inflight>>
       ELSE /\ isRedirecting' = TRUE
            /\ inflight' = Append(inflight, InvoiceData(invoice))
            /\ Did("handleSubmit", "sent", null)
    /\ UNCHANGED <<clients, clientsReq, invoice, newItem, editIndex, message,
                   isConfirmed, nav, crashed>>

\* handleSubmit resumed by a response with response.ok
submitOk ==
    /\ inflight # <<>>
    /\ inflight' = Tail(inflight)
    /\ message' = "success"
    /\ nav' = "scheduled"
    /\ Did("submitResponse", "ok", null)
    /\ UNCHANGED <<clients, clientsReq, invoice, newItem, editIndex,
                   isRedirecting, errors, isConfirmed, crashed>>

\* submitFailed without setIsRedirecting(false)
submitFailed_StaysRedirecting(why) ==
    /\ inflight # <<>>
    /\ inflight' = Tail(inflight)
    /\ message' = "error"
    /\ Did("submitResponse", why, null)
    /\ UNCHANGED <<clients, clientsReq, invoice, newItem, editIndex, errors,
                   isConfirmed, nav, crashed, isRedirecting>>

\* handleSubmit resumed by a rejected fetch, or by a response that is not
\* ok (whose body parses or not: both paths end in the catch block)
submitFailed(why) ==
    /\ inflight # <<>>
    /\ inflight' = Tail(inflight)
    /\ message' = "error"
    /\ isRedirecting' = FALSE
    /\ Did("submitResponse", why, null)
    /\ UNCHANGED <<clients, clientsReq, invoice, newItem, editIndex, errors,
                   isConfirmed, nav, crashed>>

\* the timer set after a success: navigate("/dashboard") unmounts the form
navigate ==
    /\ nav = "scheduled"
    /\ nav' = "done"
    /\ Did("navigate", "", null)
    /\ UNCHANGED <<clients, clientsReq, invoice, newItem, editIndex,
                   isRedirecting, message, errors, isConfirmed, inflight, crashed>>

(* ------------------------------ inputs -------------------------------- *)

\* the client list the lookup answers with
ClientList == << [id |-> <<"7">>, name |-> "Acme"] >>

D05 == <<2024, 1, 5>>
D10 == <<2024, 1, 10>>
D15 == <<2024, 1, 15>>

\* what the header controls are set to: a listed client, a date or a
\* cleared date, a payment method
HeaderInputs ==
    ({"client_id"} \X {<<"7">>})
    \cup ({"issue_date"} \X {<<>>, D10})
    \cup ({"due_date"} \X {<<>>, D05, D10, D15})
    \cup ({"payment_method"} \X {<<"C","a","s","h">>})

\* one complete, valid line item, typed field by field
PlainItemInputs ==
    ({"description"} \X {<<"A">>})
    \cup ({"quantity"} \X {<<"2">>})
    \cup ({"rate"} \X {<<"3">>})
    \cup ({"unit"} \X {<<"H","O","U","R">>})

\* What the line-item inputs are set to: a valid value for every field, a
\* description of white space, a discount over 100 and a unit in lower case.
\* A field not yet typed holds "".
ItemInputs ==
    ({"description"} \X {<<" ">>, <<"A">>})
    \cup ({"quantity"} \X {<<"2">>})
    \cup ({"rate"} \X {<<"3">>})
    \cup ({"discount"} \X {<<"1","0">>, <<"1","5","0">>})
    \cup ({"unit"} \X {<<"h","o","u","r">>})

(* --------------------------- specifications --------------------------- *)

\* the handlers of the line-item editor, on the inputs of ItemInputs
ItemsNext ==
    \/ \E e \in ItemInputs : handleItemChange(e[1], e[2])
    \/ saveItem
    \/ \E index \in 0..(MaxItems - 1) : editItem(index)
    \/ \E index \in 0..(MaxItems - 1) : deleteItem(index)
    \/ \E checked \in BOOLEAN : setIsConfirmed(checked)

\* The line-item editor alone: the header of the draft stays as constructed.
\* No other handler writes newItem, editIndex, isConfirmed or invoice.items.
SpecItems == Init /\ [][ItemsNext]_vars

\* The whole form: the client lookup, the header controls, the line-item
\* editor on the inputs of PlainItemInputs, submission, its responses and
\* the redirect timer.  The confirmation checkbox is left unticked: no handler
\* of src/ reads isConfirmed, it is passed on to InvoiceSummary only.
Next ==
    \/ fetchClientsOk(ClientList)
    \/ fetchClientsFail
    \/ \E e \in HeaderInputs : handleChange(e[1], e[2])
    \/ \E e \in PlainItemInputs : handleItemChange(e[1], e[2])
    \/ saveItem
    \/ \E index \in 0..(MaxItems - 1) : editItem(index)
    \/ \E index \in 0..(MaxItems - 1) : deleteItem(index)
    \/ handleSubmit
    \/ submitOk
    \/ \E why \in {"http", "network"} : submitFailed(why)
    \/ navigate

Spec == Init /\ [][Next]_vars

(* ------------------------------- claims ------------------------------- *)

\* C1: a handleSubmit called while invoice.items is empty records the
\* "items required" error and starts no request; every request started
\* carries at least one item, the list the draft held when it was sent.
C1_EmptyItemsNeverSubmitted ==
    /\ (last.op = "handleSubmit" /\ Len(items) = 0)
          => /\ last.outcome = "invalid"
             /\ errors["items"] = MsgItems
             /\ inflight = <<>>
             /\ ~isRedirecting
    /\ (last.op = "handleSubmit" /\ last.outcome = "sent") => Len(items) >= 1
    /\ \A k \in 1..Len(inflight) : Len(inflight[k].items) >= 1

\* C1 witness: submit was pressed on a draft whose only defect is the empty
\* item list
C1_Witness ==
    /\ last.op = "handleSubmit"
    /\ Len(items) = 0
    /\ errors = [NoErrors EXCEPT !["items"] = MsgItems]

\* the due date is strictly later than the issue date, as dates
DueLater(inv) == DateValue(inv.due_date) > DateValue(inv.issue_date)

\* C2: a request is started only with both dates present and the due date
\* strictly later than the issue date; validation on submit reports a
\* due-date error for every pair with the due date earlier or the same day,
\* and none for a pair with the due date later.
C2_SubmitOnlyIfDueLater ==
    /\ \A k \in 1..Len(inflight) :
          /\ Present(inflight[k].issue_date)
          /\ Present(inflight[k].due_date)
          /\ DueLater(inflight[k])
    /\ (/\ last.op = "handleSubmit"
        /\ Present(invoice.issue_date)
        /\ Present(invoice.due_date))
          => IF DueLater(invoice)
             THEN errors["due_date"] = ""
             ELSE errors["due_date"] # "" /\ last.outcome = "invalid"

\* a position of the list that holds a saved line item
IsItem(x) == x # Hole /\ x # Undefined

\* C3: a saveItem that stores while an edit index i is set replaces position
\* i by the entered item, keeps the length and every other position and
\* clears the edit index; with no edit index it appends the entered item.
C3_SaveReplacesOrAppends ==
    [][(last'.op = "saveItem" /\ last'.outcome # "rejected") =>
          IF editIndex # null
          THEN /\ Len(items') = Len(items)
               /\ items'[editIndex[1] + 1] = StoredItem(newItem)
               /\ \A k \in 1..Len(items) :
                     k # editIndex[1] + 1 => items'[k] = items[k]
               /\ editIndex' = null
          ELSE /\ items' = Append(items, StoredItem(newItem))
               /\ Len(items') = Len(items) + 1
               /\ editIndex' = null]_vars

\* C4: deleteItem(i) on the index of a row shortens the list by exactly one,
\* keeps the items before i, moves every item after i down by one and
\* changes no other field of the invoice.
C4_DeleteRemovesOne ==
    [][last'.op = "deleteItem" =>
          LET i == last'.at[1]
          IN  /\ Len(items') = Len(items) - 1
              /\ \A k \in 1..i : items'[k] = items[k]
              /\ \A k \in (i + 2)..Len(items) : items'[k - 1] = items[k]
              /\ [invoice' EXCEPT !.items = items] = invoice]_vars

IsNumber(x) == ~x.nan
Positive(x) == ~x.nan /\ x.n > 0
Within0To100(x) == ~x.nan /\ x.n >= 0 /\ x.n <= 100 * x.d

\* C5: every saved line item has a non-empty description, a positive
\* quantity, a positive rate, a discount that is a number in [0,100] and
\* the unit ITEM or HOUR in upper case.
C5_ItemsSatisfyLineItem ==
    \A k \in 1..Len(items) :
        IsItem(items[k]) =>
            /\ items[k].description # <<>>
            /\ Positive(ParseFloat(items[k].quantity))
            /\ Positive(ParseFloat(items[k].rate))
            /\ Within0To100(ParseFloat(items[k].discount))
            /\ items[k].unit \in {<<"I","T","E","M">>, <<"H","O","U","R">>}

\* x = q * r and y = x * (1 - d / 100), as equations between fractions
IsProduct(x, q, r) == IsNumber(x) /\ x.n * q.d * r.d = q.n * r.n * x.d
IsDiscounted(y, x, d) ==
    IsNumber(y) /\ y.n * 100 * d.d * x.d = x.n * (100 * d.d - d.n) * y.d

\* C6: every saved line item whose discount is a number d in [0,100] holds
\* grossAmount = quantity * rate and netAmount = grossAmount * (1 - d/100)
\* for the quantity, rate and discount stored with it, after an add and
\* after a save that follows editItem and a change of the inputs.
C6_AmountsMatchInputs ==
    \A k \in 1..Len(items) :
        (IsItem(items[k]) /\ Within0To100(ParseFloat(items[k].discount))) =>
            /\ IsProduct(items[k].grossAmount,
                         ParseFloat(items[k].quantity), ParseFloat(items[k].rate))
            /\ IsDiscounted(items[k].netAmount, items[k].grossAmount,
                            ParseFloat(items[k].discount))

\* C6 witness: a row was edited and saved again with a discount of 10, and
\* holds amounts that are numbers
C6_Witness ==
    /\ last.op = "saveItem"
    /\ last.outcome = "replaced"
    /\ last.at = <<0>>
    /\ Len(items) >= 1
    /\ IsItem(items[1])
    /\ items[1].discount = <<"1","0">>
    /\ IsNumber(items[1].netAmount)

\* C7: after a saveItem that stores, an editItem or a deleteItem the
\* confirmation flag is false, whatever it was before.
C7_ChangeClearsConfirmation ==
    (\/ last.op \in {"editItem", "deleteItem"}
     \/ last.op = "saveItem" /\ last.outcome \in {"appended", "replaced"})
        => isConfirmed = FALSE

\* C7 witness: each of the three handlers ran on a confirmed draft; here
\* deleteItem
C7_Witness ==
    /\ last.op = "deleteItem"
    /\ last.was = TRUE
    /\ isConfirmed = FALSE

\* the draft and the editor state the form controls write
Draft == <<invoice, newItem, editIndex, isConfirmed>>

\* C8: while a submission request is outstanding the progress indicator
\* replaces the form (isRedirecting), no step changes the draft, the item
\* inputs, the edit index or the confirmation flag or starts another
\* request, and at most one request is outstanding at any time.
C8_OneRequestFormBlocked ==
    [][/\ Len(inflight') <= 1
       /\ inflight' # <<>> => (isRedirecting' /\ ~FormVisible')
       /\ inflight # <<>> => (/\ Draft' = Draft
                              /\ errors' = errors
                              /\ Len(inflight') <= Len(inflight))]_vars

\* C8 witness: a request is outstanding
C8_Witness ==
    /\ Len(inflight) = 1
    /\ isRedirecting
    /\ last.op = "handleSubmit"
    /\ last.outcome = "sent"

\* C9: when a request fails (rejected fetch or a response that is not ok)
\* the form is editable again with the one error message, the draft is the
\* one that was submitted, no navigation is scheduled and submit can be
\* pressed again; navigation is scheduled by a successful response only.
C9_FailureKeepsDraft ==
    [][/\ (last'.op = "submitResponse" /\ last'.outcome # "ok")
            => /\ ~isRedirecting'
               /\ FormVisible'
               /\ message' = "error"
               /\ Draft' = Draft
               /\ InvoiceData(invoice') = Head(inflight)
               /\ nav' = "none"
               /\ inflight' = <<>>
       /\ (nav' = "scheduled" /\ nav # "scheduled")
            => (last'.op = "submitResponse" /\ last'.outcome = "ok")]_vars

\* C9 witness: a request was refused by the server and the form is back
C9_Witness ==
    /\ last.op = "submitResponse"
    /\ last.outcome = "http"
    /\ message = "error"
    /\ ~isRedirecting
    /\ Len(items) >= 1

\* the fields of an input the claim names: an empty description, quantity,
\* rate or unit, a discount that is a number outside [0,100]
Offending(it) ==
    {k \in ItemFields :
        \/ k \in {"description", "quantity", "rate", "unit"} /\ it[k] = <<>>
        \/ k = "discount" /\ IsNumber(ParseFloat(it.discount))
                          /\ ~Within0To100(ParseFloat(it.discount))}

\* C10: a saveItem on an input with an offending field is rejected; a
\* rejected saveItem sets an error message for each offending field (at
\* least one), and leaves the invoice with its items, the edit index, the
\* item inputs and the confirmation flag as they were.
C10_RejectedSaveChangesNothing ==
    [][last'.op = "saveItem" =>
          /\ Offending(newItem) # {} => last'.outcome = "rejected"
          /\ last'.outcome = "rejected"
                => /\ \A k \in Offending(newItem) : errors'[k] # ""
                   /\ \E k \in ErrorKeys : errors'[k] # ""
                   /\ Draft' = Draft]_vars

\* C10 witness: a save was rejected for its discount while a row was being
\* edited on a confirmed draft
C10_Witness ==
    /\ last.op = "saveItem"
    /\ last.outcome = "rejected"
    /\ last.was = TRUE
    /\ errors["discount"] = MsgDiscount
    /\ editIndex # null
    /\ isConfirmed

\* the two dates are both present and the due date is not strictly later
DatesViolate(inv) ==
    /\ Present(inv.issue_date)
    /\ Present(inv.due_date)
    /\ ~DueLater(inv)

\* the due-date field carries the "must be later" error
HasDueLaterError(errs) == errs["due_date"] = MsgDueLater

\* C11: after every handleChange the "must be later" error is present on the
\* due date exactly when both dates are present and the due date is not
\* strictly later than the issue date, and a change that leaves both dates
\* as they were does not alter that error.
C11_DueErrorTracksDates ==
    [][last'.op = "handleChange" =>
          /\ HasDueLaterError(errors') <=> DatesViolate(invoice')
          /\ (/\ invoice'.issue_date = invoice.issue_date
              /\ invoice'.due_date = invoice.due_date)
                => (HasDueLaterError(errors') <=> HasDueLaterError(errors))]_vars

\* the edit index is unset or the position of a saved item of the list
EditIndexValid ==
    editIndex # null =>
        /\ editIndex[1] \in 0..(Len(items) - 1)
        /\ IsItem(items[editIndex[1] + 1])

\* the list has no missing entry
NoGaps == \A k \in 1..Len(items) : IsItem(items[k])

\* a step that leaves the edit index set leaves the item it points at in
\* place
KeepsEditedItem ==
    (editIndex # null /\ editIndex' = editIndex /\ EditIndexValid)
        => /\ editIndex[1] < Len(items')
           /\ items'[editIndex[1] + 1] = items[editIndex[1] + 1]

\* C12: in every reachable state the edit index is unset or a valid position
\* of the item list, the list has no gap, and while the edit index stays set
\* the position it names keeps holding the item that editItem loaded.
C12_EditIndexPointsAtLoadedItem ==
    /\ [](EditIndexValid /\ NoGaps)
    /\ [][KeepsEditedItem]_vars

====
